---- MODULE Spec2Model ----
(***************************************************************************)
(* A model of parse.py: TelegramAdManager.process_in_batches as run by     *)
(* main().  The run reads an HTML file, extracts usernames with a regular  *)
(* expression, resolves every username through the search API, and submits *)
(* the resolved identifiers in batches through the create-ad API.          *)
(*                                                                         *)
(* Text is a sequence of one-character strings.  A JSON object returned by *)
(* the API is a record [ok, key, hasId, id]: ok is the value stored under  *)
(* "ok" ("absent" when the key is missing), key is the entity key the      *)
(* object carries ("none" when it carries none), hasId says whether the    *)
(* object under that key has an "id", and id is that identifier.           *)
(***************************************************************************)
EXTENDS Integers, Sequences, FiniteSets, TLC

VARIABLES
    pc,           \* position of the run
    file,         \* the input file on disk: [readable, text]
    batch_size,   \* Config.batch_size
    rate_limit_delay, \* Config.rate_limit_delay
    content,      \* process_in_batches: content
    matches,      \* extract_telegram_usernames: matches
    usernames,    \* process_in_batches: usernames
    idx,          \* process_usernames: number of usernames the loop has taken
    channel_ids,  \* process_usernames / process_in_batches: channel_ids
    i,            \* process_in_batches: the batch loop's offset
    exc,          \* the exception in flight or caught ("none" when none)
    trace,        \* every request sent and every sleep performed, in order
    attempts,     \* what search_channel returned for each request, in order
    submitted,    \* what each batch iteration did, in order
    log           \* the records written to the logger, in order

vars == <<pc, file, batch_size, rate_limit_delay, content, matches, usernames,
          idx, channel_ids, i, exc, trace, attempts, submitted, log>>

----------------------------------------------------------------------------
\* Bounds of the model.

\* Longest arbitrary text put in the input file.
MaxLen == 3

\* Most records (one "<digits>-<name><terminator>" each) put in the input file.
MaxFragments == 3

\* Largest batch size tried besides the default.
MaxBatchSize == 2

----------------------------------------------------------------------------
\* Configuration (class Config) as main() constructs it.

Target == "channel"

DefaultBatchSize == 100

DefaultRateLimitDelay == 0

\* The divisor create_ad applies to the offset it is given.
TitleDivisor == 100

----------------------------------------------------------------------------
\* Text.

Digits == {"0", "1", "2", "3", "4", "5", "6", "7", "8", "9"}

\* The characters the pattern's class [^">] refuses.
ClassExcluded == {"\"", ">"}

\* The characters of the filter's string, in its order.
Blacklist ==
    <<".", "\\", " ", "=", "@", "#", "$", "%", "^", "&", "*", "(", ")", "+",
      "-", "~", "/", "\"", "`", "'", "[", "]", "{", "}", "|", ",", "<", ">",
      "!", "?", ":", ";">>

\* char in match
CharIn(char, match) == \E k \in 1..Len(match) : match[k] = char

\* The filter looking at the first character of the match only.
AnyBlacklistedFirstChar(match) ==
    \E k \in 1..Len(Blacklist) : Len(match) > 0 /\ match[1] = Blacklist[k]

\* any(char in match for char in "...")
AnyBlacklisted(match) == \E k \in 1..Len(Blacklist) : CharIn(Blacklist[k], match)

\* The index after the longest run of digits that starts at p (p when none).
RECURSIVE DigitsEnd(_, _)
DigitsEnd(text, p) ==
    IF p <= Len(text) /\ text[p] \in Digits THEN DigitsEnd(text, p + 1) ELSE p

\* The index after the longest run of [^">] that starts at p (p when none).
RECURSIVE ClassEnd(_, _)
ClassEnd(text, p) ==
    IF p <= Len(text) /\ text[p] \notin ClassExcluded
    THEN ClassEnd(text, p + 1) ELSE p

\* The pattern \d+-([^">]+) tried at position p: [found, from, to], the
\* capture group being text[from..to].  Both repetitions are greedy, and no
\* shorter run of digits can be followed by "-", so there is one candidate.
MatchAt(text, p) ==
    LET d == DigitsEnd(text, p)
        e == ClassEnd(text, d + 1)
    IN  IF d > p /\ d <= Len(text) /\ text[d] = "-" /\ e > d + 1
        THEN [found |-> TRUE, from |-> d + 1, to |-> e - 1]
        ELSE [found |-> FALSE, from |-> 0, to |-> 0]

\* re.findall(pattern, text) from position p on: the capture groups of the
\* leftmost non-overlapping matches.
RECURSIVE FindAllFrom(_, _)
FindAllFrom(text, p) ==
    IF p > Len(text) THEN <<>>
    ELSE LET m == MatchAt(text, p)
         IN  IF m.found
             THEN <<SubSeq(text, m.from, m.to)>> \o FindAllFrom(text, m.to + 1)
             ELSE FindAllFrom(text, p + 1)

FindAll(text) == FindAllFrom(text, 1)

\* The list comprehension of extract_telegram_usernames.
KeepClean(ms) == SelectSeq(ms, LAMBDA match : ~AnyBlacklisted(match))

extract_telegram_usernames(html_content) == KeepClean(FindAll(html_content))

----------------------------------------------------------------------------
\* The API.

\* Identifiers the search endpoint hands out.
Ids == {7, 42}

\* What search_channel and create_ad return when the request raises a
\* RequestException: {"ok": False, "error": str(e)}.
FailureDict == [ok |-> "false", key |-> "none", hasId |-> FALSE, id |-> 0]

\* JSON objects the search endpoint answers with.
SearchBodies ==
    {[ok |-> "false", key |-> "none", hasId |-> FALSE, id |-> 0],
     [ok |-> "true", key |-> "none", hasId |-> FALSE, id |-> 0],
     [ok |-> "absent", key |-> Target, hasId |-> FALSE, id |-> 0]}
    \cup {[ok |-> "absent", key |-> Target, hasId |-> TRUE, id |-> n] : n \in Ids}

\* JSON objects the create-ad endpoint answers with.
CreateBodies ==
    {[ok |-> "true", key |-> "none", hasId |-> FALSE, id |-> 0],
     [ok |-> "false", key |-> "none", hasId |-> FALSE, id |-> 0]}

\* What a POST does: it raises a RequestException (fail), or it answers.
Replies(bodies) ==
    {[fail |-> TRUE, body |-> FailureDict]}
    \cup {[fail |-> FALSE, body |-> b] : b \in bodies}

Event(kind, data, no) == [kind |-> kind, data |-> data, no |-> no]

LogRecord(level, event, no) == [level |-> level, event |-> event, no |-> no]

\* time.sleep(self.config.rate_limit_delay)
Sleep(delay) == Event("sleep", <<>>, delay)

\* search_channel: the request it sends, the dict it returns, what it logs.
search_channel(username, reply) ==
    [request |-> Event("search", <<"@">> \o username, 0),
     ret     |-> IF reply.fail THEN FailureDict ELSE reply.body,
     logs    |-> IF reply.fail THEN <<LogRecord("ERROR", "search_error", 0)>>
                 ELSE <<>>]

\* str(n) for an identifier n >= 0.
RECURSIVE Str(_)
Str(n) ==
    LET digit == <<"0", "1", "2", "3", "4", "5", "6", "7", "8", "9">>
    IN  IF n < 10 THEN <<digit[n + 1]>>
        ELSE Str(n \div 10) \o <<digit[(n % 10) + 1]>>

\* ";".join(map(str, batch))
RECURSIVE Join(_)
Join(batch) ==
    IF Len(batch) = 0 THEN <<>>
    ELSE IF Len(batch) = 1 THEN Str(batch[1])
    ELSE Str(batch[1]) \o <<";">> \o Join(Tail(batch))

\* int(batch_no/100+1)
TitleNo(batch_no) == (batch_no \div TitleDivisor) + 1

\* create_ad with its try/except left out: the RequestException escapes.
create_ad_uncaught(channel_ids_str, batch_no, reply) ==
    [request |-> Event("createAd", channel_ids_str, TitleNo(batch_no)),
     ret     |-> reply.body,
     logs    |-> <<>>,
     raises  |-> reply.fail]

\* create_ad: the request it sends, the dict it returns, what it logs, and
\* whether an exception leaves it (the RequestException is caught inside).
create_ad(channel_ids_str, batch_no, reply) ==
    [request |-> Event("createAd", channel_ids_str, TitleNo(batch_no)),
     ret     |-> IF reply.fail THEN FailureDict ELSE reply.body,
     logs    |-> IF reply.fail THEN <<LogRecord("ERROR", "create_error", 0)>>
                 ELSE <<>>,
     raises  |-> FALSE]

\* The slice taken one element too long: channel_ids[i:i + batch_size + 1].
SliceTooLong(ids, from, size) ==
    SubSeq(ids, from + 1,
           IF from + size + 1 < Len(ids) THEN from + size + 1 ELSE Len(ids))

\* channel_ids[i:i + batch_size], i counted from 0.
Slice(ids, from, size) ==
    SubSeq(ids, from + 1, IF from + size < Len(ids) THEN from + size ELSE Len(ids))

----------------------------------------------------------------------------
\* The input file.

Alphabet == {"5", "-", "a", "\"", ">"}

RECURSIVE TextsOfLen(_)
TextsOfLen(n) ==
    IF n = 0 THEN {<<>>}
    ELSE {t \o <<c>> : t \in TextsOfLen(n - 1), c \in Alphabet}

\* Records of a listing page: two that name a username, one whose name has a
\* dot in it.
Fragments ==
    {<<"5", "-", "a", "\"">>,
     <<"6", "-", "b", ">">>,
     <<"7", "-", "b", ".", "d", "\"">>}

RECURSIVE PagesOfLen(_)
PagesOfLen(n) ==
    IF n = 0 THEN {<<>>}
    ELSE {t \o f : t \in PagesOfLen(n - 1), f \in Fragments}

Texts ==
    UNION {TextsOfLen(n) : n \in 0..MaxLen}
    \cup UNION {PagesOfLen(n) : n \in 0..MaxFragments}

BatchSizes == (1..MaxBatchSize) \cup {DefaultBatchSize}

----------------------------------------------------------------------------
\* The run.

Init ==
    /\ pc = "start"
    /\ file \in {[readable |-> FALSE, text |-> <<>>]}
                \cup {[readable |-> TRUE, text |-> t] : t \in Texts}
    /\ batch_size \in BatchSizes
    /\ rate_limit_delay = DefaultRateLimitDelay
    /\ content = <<>>
    /\ matches = <<>>
    /\ usernames = <<>>
    /\ idx = 0
    /\ channel_ids = <<>>
    /\ i = 0
    /\ exc = "none"
    /\ trace = <<>>
    /\ attempts = <<>>
    /\ submitted = <<>>
    /\ log = <<>>

\* The read with its error swallowed: an unreadable file reads as empty.
ReadFileIgnoringErrors ==
    /\ pc = "start"
    /\ content' = (IF file.readable THEN file.text ELSE <<>>)
    /\ pc' = "extract"
    /\ UNCHANGED <<file, batch_size, rate_limit_delay, matches, usernames, idx,
                   channel_ids, i, exc, trace, attempts, submitted, log>>

\* with open(html_file_path, "r", encoding="utf-8") as file: content = file.read()
ReadFile ==
    /\ pc = "start"
    /\ IF file.readable
       THEN /\ content' = file.text
            /\ pc' = "extract"
            /\ exc' = exc
       ELSE /\ exc' = "OSError"
            /\ pc' = "except"
            /\ content' = content
    /\ UNCHANGED <<file, batch_size, rate_limit_delay, matches, usernames, idx,
                   channel_ids, i, trace, attempts, submitted, log>>

\* usernames = self.extract_telegram_usernames(content), and the log line.
Extract ==
    /\ pc = "extract"
    /\ matches' = FindAll(content)
    /\ usernames' = extract_telegram_usernames(content)
    /\ log' = Append(log, LogRecord("INFO", "usernames_found", Len(usernames')))
    /\ channel_ids' = <<>>
    /\ idx' = 0
    /\ pc' = "resolve"
    /\ UNCHANGED <<file, batch_size, rate_limit_delay, content, i, exc, trace,
                   attempts, submitted>>

\* The iteration appending whatever identifier the answer has, also when the
\* answer is ok=false or has no target key.
InspectAppendsUnresolved(response) ==
    IF response.ok = "false"
    THEN [ids |-> <<response.id>>,
          logs |-> <<LogRecord("WARNING", "username_failed", 0)>>,
          sleeps |-> FALSE, raises |-> FALSE]
    ELSE IF response.key = Target
    THEN IF response.hasId
         THEN [ids |-> <<response.id>>, logs |-> <<>>,
               sleeps |-> TRUE, raises |-> FALSE]
         ELSE [ids |-> <<>>, logs |-> <<>>, sleeps |-> FALSE, raises |-> TRUE]
    ELSE [ids |-> <<response.id>>,
          logs |-> <<LogRecord("WARNING", "invalid_format", 0)>>,
          sleeps |-> TRUE, raises |-> FALSE]

\* One iteration of the loop of process_usernames on the dict search_channel
\* returned: the identifiers appended, the warnings logged, whether the
\* iteration reaches the sleep at its end, whether it raises.
Inspect(response) ==
    IF response.ok = "false"
    THEN [ids |-> <<>>, logs |-> <<LogRecord("WARNING", "username_failed", 0)>>,
          sleeps |-> FALSE, raises |-> FALSE]
    ELSE IF response.key = Target
    THEN IF response.hasId
         THEN [ids |-> <<response.id>>, logs |-> <<>>,
               sleeps |-> TRUE, raises |-> FALSE]
         ELSE [ids |-> <<>>, logs |-> <<>>, sleeps |-> FALSE, raises |-> TRUE]
    ELSE [ids |-> <<>>, logs |-> <<LogRecord("WARNING", "invalid_format", 0)>>,
          sleeps |-> TRUE, raises |-> FALSE]

ResolveStep ==
    /\ pc = "resolve"
    /\ idx < Len(usernames)
    /\ \E reply \in Replies(SearchBodies) :
         LET username == usernames[idx + 1]
             call == search_channel(username, reply)
             step == Inspect(call.ret)
         IN  /\ attempts' = Append(attempts,
                    [username |-> username, fail |-> reply.fail, ret |-> call.ret])
             /\ trace' = trace \o <<call.request>>
                         \o (IF step.sleeps THEN <<Sleep(rate_limit_delay)>> ELSE <<>>)
             /\ log' = log \o call.logs \o step.logs
             /\ channel_ids' = channel_ids \o step.ids
             /\ IF step.raises
                THEN /\ exc' = "KeyError"
                     /\ pc' = "except"
                     /\ idx' = idx
                ELSE /\ exc' = exc
                     /\ pc' = pc
                     /\ idx' = idx + 1
    /\ UNCHANGED <<file, batch_size, rate_limit_delay, content, matches,
                   usernames, i, submitted>>

\* return channel_ids, and the start of the batch loop.
ResolveReturn ==
    /\ pc = "resolve"
    /\ idx = Len(usernames)
    /\ pc' = "batches"
    /\ i' = 0
    /\ UNCHANGED <<file, batch_size, rate_limit_delay, content, matches,
                   usernames, idx, channel_ids, exc, trace, attempts, submitted,
                   log>>

\* The offset of the iteration after the one at offset: range(0, n, batch_size).
NextOffset(offset, size) == offset + size

\* The end of a batch iteration, sleeping only after a successful submission.
BatchTailSleepOnSuccess(response, no) ==
    IF response.ok = "true"
    THEN [logs |-> <<LogRecord("INFO", "batch_ok", no)>>,
          events |-> <<Sleep(rate_limit_delay)>>]
    ELSE [logs |-> <<LogRecord("ERROR", "batch_failed", no)>>, events |-> <<>>]

\* The end of a batch iteration, after create_ad returned response: the
\* result is logged (response.get("ok") is truthy or not), then the sleep.
BatchTail(response, no) ==
    [logs   |-> IF response.ok = "true"
                THEN <<LogRecord("INFO", "batch_ok", no)>>
                ELSE <<LogRecord("ERROR", "batch_failed", no)>>,
     events |-> <<Sleep(rate_limit_delay)>>]

\* One iteration of the batch loop of process_in_batches.
SubmitBatch ==
    /\ pc = "batches"
    /\ i < Len(channel_ids)
    /\ \E reply \in Replies(CreateBodies) :
         LET batch == Slice(channel_ids, i, batch_size)
             batch_str == Join(batch)
             no == (i \div batch_size) + 1
             call == create_ad(batch_str, i, reply)
             tail == BatchTail(call.ret, no)
             start == <<LogRecord("INFO", "batch_start", no)>>
             done == [offset |-> i, batch |-> batch, no |-> no,
                      title |-> call.request.no, fail |-> reply.fail,
                      ok |-> call.ret.ok]
         IN  /\ submitted' = Append(submitted, done)
             /\ IF call.raises
                THEN /\ trace' = Append(trace, call.request)
                     /\ log' = log \o start
                     /\ exc' = "RequestException"
                     /\ pc' = "except"
                     /\ i' = i
                ELSE /\ trace' = trace \o <<call.request>> \o tail.events
                     /\ log' = log \o start \o call.logs \o tail.logs
                     /\ exc' = exc
                     /\ pc' = pc
                     /\ i' = NextOffset(i, batch_size)
    /\ UNCHANGED <<file, batch_size, rate_limit_delay, content, matches,
                   usernames, idx, channel_ids, attempts>>

\* The batch loop is over: process_in_batches returns to main.
RunReturns ==
    /\ pc = "batches"
    /\ i >= Len(channel_ids)
    /\ pc' = "done"
    /\ UNCHANGED <<file, batch_size, rate_limit_delay, content, matches,
                   usernames, idx, channel_ids, i, exc, trace, attempts,
                   submitted, log>>

\* main: except Exception as e: logger.error(...)
MainExcept ==
    /\ pc = "except"
    /\ log' = Append(log, LogRecord("ERROR", "run_error", 0))
    /\ pc' = "done"
    /\ UNCHANGED <<file, batch_size, rate_limit_delay, content, matches,
                   usernames, idx, channel_ids, i, exc, trace, attempts,
                   submitted>>

Next ==
    \/ ReadFile
    \/ Extract
    \/ ResolveStep
    \/ ResolveReturn
    \/ SubmitBatch
    \/ RunReturns
    \/ MainExcept

Spec == Init /\ [][Next]_vars

----------------------------------------------------------------------------
\* Vocabulary of the properties.

Positions(kind) == {k \in 1..Len(trace) : trace[k].kind = kind}

Events(kind) == SelectSeq(trace, LAMBDA e : e.kind = kind)

\* ceil(n / b)
CeilDiv(n, b) == (n + b - 1) \div b

\* The run went through process_usernames and got its list back.
Resolved == pc = "batches" \/ (pc = "done" /\ exc = "none" /\ file.readable)

\* The run ended with process_in_batches returning to main.
Completed == pc = "done" /\ exc = "none" /\ file.readable

\* A search attempt that resolved its username: the request went through and
\* the answer is not ok=false, has the target key and an id under it.
Success(a) ==
    /\ ~a.fail
    /\ a.ret.ok # "false"
    /\ a.ret.key = Target
    /\ a.ret.hasId

\* An answer that lacks an expected key: the target key, or the id under it.
Malformed(a) ==
    /\ ~a.fail
    /\ a.ret.ok # "false"
    /\ (a.ret.key # Target \/ ~a.ret.hasId)

\* One of the four outcomes: resolved, transport/HTTP error, ok=false, or an
\* answer without the target key.
FourOutcomes(a) ==
    \/ Success(a)
    \/ a.fail
    \/ a.ret.ok = "false"
    \/ a.ret.key # Target

\* The identifiers of the attempts that resolved, in the order of the attempts.
RECURSIVE ResolvedIds(_)
ResolvedIds(as) ==
    IF Len(as) = 0 THEN <<>>
    ELSE (IF Success(as[1]) THEN <<as[1].ret.id>> ELSE <<>>)
         \o ResolvedIds(Tail(as))

\* The number a string of decimal digits writes.
RECURSIVE ParseInt(_)
ParseInt(ds) ==
    IF Len(ds) = 0 THEN 0
    ELSE 10 * ParseInt(SubSeq(ds, 1, Len(ds) - 1))
         + (CHOOSE d \in 0..9 : Str(d) = <<ds[Len(ds)]>>)

\* The identifiers a ";"-separated string carries (none for the empty string).
RECURSIVE SplitIds(_, _)
SplitIds(str, cur) ==
    IF Len(str) = 0 THEN (IF Len(cur) = 0 THEN <<>> ELSE <<ParseInt(cur)>>)
    ELSE IF str[1] = ";" THEN <<ParseInt(cur)>> \o SplitIds(Tail(str), <<>>)
    ELSE SplitIds(Tail(str), Append(cur, str[1]))

\* The identifiers carried by the create-ad requests es, in their order.
RECURSIVE Carried(_)
Carried(es) ==
    IF Len(es) = 0 THEN <<>>
    ELSE SplitIds(es[1].data, <<>>) \o Carried(Tail(es))

\* The concatenation of the batches of the iterations ss.
RECURSIVE Concat(_)
Concat(ss) ==
    IF Len(ss) = 0 THEN <<>> ELSE ss[1].batch \o Concat(Tail(ss))

----------------------------------------------------------------------------
\* C1: in process_usernames every search request is followed by exactly one
\* sleep of the configured delay before the next search request, whatever
\* the attempt's outcome, and when process_usernames returns it has slept
\* once per username.
C1_SleepAfterEveryAttempt ==
    /\ \A k \in Positions("search") :
         (\E m \in Positions("search") : m > k)
            => /\ trace[k + 1] = Sleep(rate_limit_delay)
               /\ trace[k + 2].kind = "search"
    /\ (pc = "batches" /\ i = 0)
         => Len(Events("sleep")) = Len(usernames)

\* C2: the number create_ad puts in the title is the batch's offset divided
\* by the configured batch size, plus one: the k-th batch carries k, the
\* number logged for it.
C2_TitleIsBatchNumber ==
    \A k \in 1..Len(submitted) :
        /\ submitted[k].title = (submitted[k].offset \div batch_size) + 1
        /\ submitted[k].title = k
        /\ submitted[k].title = submitted[k].no

\* C3: once resolution has finished, one create-ad request is sent for every
\* batch, in increasing batch order, however the earlier requests ended: the
\* k-th request carries the k-th slice of the identifier list, the requests
\* sent so far are those of the batches before the loop's offset, no
\* exception leaves the loop, and a run that returns has sent all of them.
C3_EveryBatchSubmittedOnce ==
    LET reqs == Events("createAd")
        n == Len(channel_ids)
    IN  /\ exc # "RequestException"
        /\ Resolved =>
             /\ \A k \in 1..Len(reqs) :
                  /\ (k - 1) * batch_size < n
                  /\ reqs[k].data = Join(Slice(channel_ids, (k - 1) * batch_size,
                                               batch_size))
             /\ pc = "batches" => i = Len(reqs) * batch_size
             /\ Completed => Len(reqs) = CeilDiv(n, batch_size)

C3_Witness ==
    /\ Completed
    /\ Len(submitted) = 3
    /\ submitted[1].fail
    /\ submitted[2].ok = "false" /\ ~submitted[2].fail
    /\ submitted[3].ok = "true"
    /\ Len(Events("createAd")) = 3

\* C4: the batches are consecutive slices of the identifier list: each is
\* non-empty and has at most batch_size identifiers, each but the last has
\* exactly batch_size, their concatenation is the part of the list before
\* the loop's offset, and a run that returns has formed ceil(n/b) batches
\* whose concatenation is the whole list.
C4_BatchesPartitionIds ==
    LET n == Len(channel_ids)
        m == Len(submitted)
    IN  Resolved =>
          /\ \A k \in 1..m :
               /\ Len(submitted[k].batch) >= 1
               /\ Len(submitted[k].batch) <= batch_size
               /\ k < m => Len(submitted[k].batch) = batch_size
          /\ Concat(submitted)
               = SubSeq(channel_ids, 1, IF i < n THEN i ELSE n)
          /\ Completed =>
               /\ m = CeilDiv(n, batch_size)
               /\ Concat(submitted) = channel_ids

C4_Witness ==
    /\ Completed
    /\ batch_size = 2
    /\ Len(channel_ids) = 3
    /\ channel_ids[1] # channel_ids[2]
    /\ Len(submitted) = 2
    /\ Len(submitted[1].batch) = 2
    /\ Len(submitted[2].batch) = 1

\* C5: as long as every answer is one of the four outcomes, process_usernames
\* does not raise, has sent one search request per list entry taken, in list
\* order, and holds the identifiers of exactly the resolved entries in their
\* order; when it returns every entry has been searched once and the result
\* is no longer than the list.
C5_OneSearchPerUsername ==
    (\A k \in 1..Len(attempts) : FourOutcomes(attempts[k])) =>
        LET reqs == Events("search")
        IN  /\ exc # "KeyError"
            /\ Len(reqs) = Len(attempts)
            /\ Len(reqs) <= Len(usernames)
            /\ pc = "resolve" => Len(reqs) = idx
            /\ \A k \in 1..Len(reqs) :
                 /\ reqs[k].data = <<"@">> \o usernames[k]
                 /\ attempts[k].username = usernames[k]
            /\ channel_ids = ResolvedIds(attempts)
            /\ Len(channel_ids) <= Len(attempts)
            /\ Resolved => Len(reqs) = Len(usernames)

C5_Witness ==
    /\ pc = "batches"
    /\ Len(usernames) = 3
    /\ usernames[1] = usernames[3]
    /\ usernames[1] # usernames[2]
    /\ Success(attempts[1])
    /\ attempts[2].fail
    /\ Success(attempts[3])
    /\ channel_ids = <<42, 7>>

\* C6: no create-ad request is sent before every extracted username has had
\* its search attempt, and when the run has ended the identifiers carried by
\* its create-ad requests, in order, are those of the resolved usernames, in
\* ceil(k/b) requests for k resolved usernames.
C6_RunSubmitsResolvedIds ==
    LET reqs == Events("createAd")
        ids == ResolvedIds(attempts)
    IN  /\ \A k \in Positions("createAd") :
             /\ \A m \in Positions("search") : m < k
             /\ Len(attempts) = Len(usernames)
        /\ pc = "done" =>
             /\ Carried(reqs) = ids
             /\ Len(reqs) = CeilDiv(Len(ids), batch_size)

\* C7: when the input file cannot be read, no request is sent; the error
\* goes to main, which logs it once, and the run is over.
C7_UnreadableFileDoesNothing ==
    ~file.readable =>
        /\ trace = <<>>
        /\ attempts = <<>>
        /\ submitted = <<>>
        /\ pc \in {"start", "except", "done"}
        /\ pc = "except" => (exc = "OSError" /\ log = <<>>)
        /\ pc = "done" =>
             /\ exc = "OSError"
             /\ log = <<LogRecord("ERROR", "run_error", 0)>>
             /\ ~ENABLED Next

C7_Witness ==
    /\ ~file.readable
    /\ pc = "done"
    /\ Len(log) = 1

\* C8: every create-ad request is followed by exactly one sleep of the
\* configured delay before the next create-ad request or the end of the run,
\* whatever came back; B submitted batches make B such sleeps.
C8_SleepAfterEveryBatch ==
    LET first == IF Positions("createAd") = {} THEN Len(trace) + 1
                 ELSE CHOOSE k \in Positions("createAd") :
                          \A m \in Positions("createAd") : k <= m
    IN  /\ \A k \in Positions("createAd") :
             /\ k < Len(trace)
             /\ trace[k + 1] = Sleep(rate_limit_delay)
             /\ k + 2 <= Len(trace) => trace[k + 2].kind = "createAd"
        /\ Cardinality({k \in Positions("sleep") : k > first})
             = Len(submitted)
        /\ Len(submitted) = Len(Events("createAd"))

C8_Witness ==
    /\ Completed
    /\ Len(submitted) = 3
    /\ submitted[1].ok = "true"
    /\ submitted[2].ok = "false" /\ ~submitted[2].fail
    /\ submitted[3].fail
    /\ Cardinality(Positions("sleep")) >= 3

\* The characters of the blacklist.
BlacklistSet == {Blacklist[k] : k \in 1..Len(Blacklist)}

Clean(match) == \A k \in 1..Len(match) : match[k] \notin BlacklistSet

\* The pattern matches from position p of text with its group at f..t.
PatternSpan(text, p, f, t) ==
    /\ 1 <= p /\ p + 2 <= f /\ f <= t /\ t <= Len(text)
    /\ \A k \in p..(f - 2) : text[k] \in Digits
    /\ text[f - 1] = "-"
    /\ \A k \in f..t : text[k] \notin ClassExcluded
    /\ t < Len(text) => text[t + 1] \in ClassExcluded

\* The spans [p, f, t] at which the pattern matches in text.
Spans(text) ==
    {sp \in [p : 1..Len(text), f : 1..Len(text), t : 1..Len(text)] :
        PatternSpan(text, sp.p, sp.f, sp.t)}

\* The matches a left-to-right scan reports: those that start outside every
\* reported match before them.
Reported(text) ==
    CHOOSE C \in SUBSET Spans(text) :
        \A sp \in Spans(text) :
            sp \in C <=> ~\E q \in C : q.p < sp.p /\ sp.p <= q.t

\* C9: extraction returns the capture groups of the pattern's matches in the
\* order they occur in the text, keeping exactly those that have no
\* blacklisted character; no returned username has one; extracting again
\* from the same text gives the same list, and the text read is unchanged.
C9_ExtractionKeepsCleanMatches ==
    pc \notin {"start", "extract", "except"} /\ file.readable =>
        /\ \A k \in 1..Len(usernames) : Clean(usernames[k])
        /\ usernames = SelectSeq(matches, Clean)
        /\ content = file.text
        /\ (pc = "resolve" /\ idx = 0) =>
             LET C == Reported(content)
             IN  /\ Len(matches) = Cardinality(C)
                 /\ \A sp \in C :
                      matches[Cardinality({q \in C : q.p < sp.p}) + 1]
                          = SubSeq(content, sp.f, sp.t)
                 /\ extract_telegram_usernames(content) = usernames

C9_Witness ==
    /\ pc = "resolve"
    /\ content = <<"5", "-", "a", "\"", "6", "-", "b", ">",
                   "7", "-", "b", ".", "d", "\"">>
    /\ matches = <<(<<"a">>), (<<"b">>), (<<"b", ".", "d">>)>>
    /\ usernames = <<(<<"a">>), (<<"b">>)>>

\* C10: an answer that lacks the target key, or the id under it, leaves its
\* username unresolved and nothing else: the run is not aborted, the other
\* usernames are searched, and the resolved identifiers are submitted.
C10_MalformedAnswerIsSkipped ==
    (\E k \in 1..Len(attempts) : Malformed(attempts[k])) =>
        /\ exc = "none"
        /\ pc = "done" =>
             /\ Len(attempts) = Len(usernames)
             /\ Carried(Events("createAd")) = ResolvedIds(attempts)

====
